---- MODULE Spec2Model ----
(***************************************************************************)
(* Session memory, context selection, reference resolution, classification *)
(* and SQL generation of the context-aware query pipeline                  *)
(* (src/nlp/*.py) together with the user-input handler of src/app.py.      *)
(*                                                                         *)
(* Text is modelled as a sequence of one-character strings, so that the    *)
(* substring tests, slices, strip() and split() of the Python code are     *)
(* computed and not assumed.                                               *)
(***************************************************************************)
EXTENDS Integers, Sequences, FiniteSets, TLC

\* ------------------------------------------------------------------ bounds
\* max_history is drawn from 0..MaxHistoryBound at every construction.
MaxHistoryBound == 2
\* Number of user turns (process_query calls) explored.
MaxTurns == 2

\* ------------------------------------------------------- Python str helpers
Min(a, b) == IF a < b THEN a ELSE b

Max(a, b) == IF a < b THEN b ELSE a

LowerLetters ==
    <<"a","b","c","d","e","f","g","h","i","j","k","l","m",
      "n","o","p","q","r","s","t","u","v","w","x","y","z">>

UpperLetters ==
    <<"A","B","C","D","E","F","G","H","I","J","K","L","M",
      "N","O","P","Q","R","S","T","U","V","W","X","Y","Z">>

LowerChar(c) ==
    IF \E i \in 1..26 : UpperLetters[i] = c
    THEN LowerLetters[CHOOSE i \in 1..26 : UpperLetters[i] = c]
    ELSE c

UpperChar(c) ==
    IF \E i \in 1..26 : LowerLetters[i] = c
    THEN UpperLetters[CHOOSE i \in 1..26 : LowerLetters[i] = c]
    ELSE c

\* str.lower() / str.upper()
Lower(s) == [i \in 1..Len(s) |-> LowerChar(s[i])]

Upper(s) == [i \in 1..Len(s) |-> UpperChar(s[i])]

\* s[:n] and s[n:] for n >= 0 (n counts characters, as in Python)
Take(s, n) == SubSeq(s, 1, Min(n, Len(s)))

Drop(s, n) == SubSeq(s, Min(n, Len(s)) + 1, Len(s))

\* s.find(sub): 0-based index of the first occurrence, -1 when absent
Find(s, sub) ==
    LET hits == {i \in 0..(Len(s) - Len(sub)) : SubSeq(s, i + 1, i + Len(sub)) = sub}
    IN  IF hits = {} THEN -1 ELSE CHOOSE i \in hits : \A j \in hits : i <= j

\* sub in s
Contains(s, sub) == Find(s, sub) >= 0

StartsWith(s, pre) == Len(s) >= Len(pre) /\ SubSeq(s, 1, Len(pre)) = pre

EndsWith(s, suf) == Len(s) >= Len(suf) /\ SubSeq(s, Len(s) - Len(suf) + 1, Len(s)) = suf

Whitespace == {" ", "\n", "\t"}

\* s.strip()
Strip(s) ==
    IF \A i \in 1..Len(s) : s[i] \in Whitespace THEN <<>>
    ELSE LET first == CHOOSE i \in 1..Len(s) :
                          /\ s[i] \notin Whitespace
                          /\ \A j \in 1..(i - 1) : s[j] \in Whitespace
             drop  == CHOOSE k \in 0..(Len(s) - 1) :
                          /\ s[Len(s) - k] \notin Whitespace
                          /\ \A j \in 0..(k - 1) : s[Len(s) - j] \in Whitespace
         IN  SubSeq(s, first, Len(s) - drop)

\* s.split('\n'): the lines of s, always at least one
RECURSIVE SplitLines(_)
SplitLines(s) ==
    LET p == Find(s, <<"\n">>)
    IN  IF p < 0 THEN <<s>>
        ELSE <<Take(s, p)>> \o SplitLines(Drop(s, p + 1))

\* sep.join(parts)
RECURSIVE Join(_, _)
Join(sep, parts) ==
    IF Len(parts) = 0 THEN <<>>
    ELSE IF Len(parts) = 1 THEN parts[1]
    ELSE parts[1] \o sep \o Join(sep, Tail(parts))

\* any(k in s for k in keywords)
AnyIn(keywords, s) == \E i \in 1..Len(keywords) : Contains(s, keywords[i])

\* The backquote character (U+0060), which a TLA+ string cannot hold.
BQ == "bq"

\* no exception
NoError == "none"

\* --------------------------------------------------------- query_classifier
schema_keywords ==
    << <<"s","c","h","e","m","a">>,
       <<"t","a","b","l","e">>,
       <<"t","a","b","l","e","s">>,
       <<"c","o","l","u","m","n","s">>,
       <<"s","t","r","u","c","t","u","r","e">>,
       <<"d","e","s","c","r","i","b","e">>,
       <<"s","h","o","w"," ","t","a","b","l","e","s">> >>

data_keywords ==
    << <<"s","e","l","e","c","t">>,
       <<"s","h","o","w">>,
       <<"f","i","n","d">>,
       <<"g","e","t">>,
       <<"c","o","u","n","t">>,
       <<"s","u","m">>,
       <<"a","v","e","r","a","g","e">>,
       <<"m","a","x">>,
       <<"m","i","n">>,
       <<"t","o","p">>,
       <<"b","o","t","t","o","m">>,
       <<"c","h","a","r","t">>,
       <<"g","r","a","p","h">>,
       <<"p","l","o","t">>,
       <<"v","i","s","u","a","l","i","z","e">>,
       <<"a","n","a","l","y","z","e">> >>

\* Faulty variant: the data keywords are tested before the schema keywords
classify_query_data_first(query) ==
    LET query_lower == Lower(query)
    IN  IF AnyIn(data_keywords, query_lower)
        THEN "data_query"
        ELSE IF AnyIn(schema_keywords, query_lower)
        THEN IF Contains(query_lower, <<"t","a","b","l","e">>)
                /\ (Contains(query_lower, <<"l","i","s","t">>) \/ Contains(query_lower, <<"s","h","o","w">>))
             THEN "table_list"
             ELSE "schema_request"
        ELSE "general"

classify_query(query) ==
    LET query_lower == Lower(query)
    IN  IF AnyIn(schema_keywords, query_lower)
        THEN IF Contains(query_lower, <<"t","a","b","l","e">>)
                /\ (Contains(query_lower, <<"l","i","s","t">>) \/ Contains(query_lower, <<"s","h","o","w">>))
             THEN "table_list"
             ELSE "schema_request"
        ELSE IF AnyIn(data_keywords, query_lower)
        THEN "data_query"
        ELSE "general"

\* ------------------------------------------ detect_follow_up_patterns
follow_up_indicators ==
    << <<"t","h","a","t">>,
       <<"i","t">>,
       <<"t","h","i","s">>,
       <<"t","h","e","m">>,
       <<"t","h","o","s","e">>,
       <<"t","h","e","s","e">>,
       <<"p","r","e","v","i","o","u","s">>,
       <<"l","a","s","t">>,
       <<"r","e","c","e","n","t">>,
       <<"a","b","o","v","e">>,
       <<"e","a","r","l","i","e","r">>,
       <<"s","a","m","e">>,
       <<"s","i","m","i","l","a","r">>,
       <<"a","l","s","o">>,
       <<"t","o","o">>,
       <<"a","s"," ","w","e","l","l">> >>

pronoun_references ==
    << <<"t","h","a","t">>,
       <<"i","t">>,
       <<"t","h","i","s">>,
       <<"t","h","e","m">>,
       <<"t","h","o","s","e">>,
       <<"t","h","e","s","e">> >>

time_references ==
    << <<"p","r","e","v","i","o","u","s">>,
       <<"l","a","s","t">>,
       <<"r","e","c","e","n","t">>,
       <<"e","a","r","l","i","e","r">>,
       <<"b","e","f","o","r","e">> >>

continuation_words ==
    << <<"a","l","s","o">>,
       <<"t","o","o">>,
       <<"a","s"," ","w","e","l","l">>,
       <<"a","n","d">>,
       <<"p","l","u","s">>,
       <<"a","d","d","i","t","i","o","n","a","l","l","y">> >>

detect_follow_up_patterns(query) ==
    LET query_lower == Lower(query)
    IN  [is_follow_up     |-> AnyIn(follow_up_indicators, query_lower),
         has_pronouns     |-> AnyIn(pronoun_references, query_lower),
         has_time_refs    |-> AnyIn(time_references, query_lower),
         has_continuation |-> AnyIn(continuation_words, query_lower),
         indicators_found |-> SelectSeq(follow_up_indicators,
                                        LAMBDA ind : Contains(query_lower, ind))]

\* ------------------------------------------------------------ sql_generator
kwSELECT == <<"S","E","L","E","C","T">>

kwFROM == <<"F","R","O","M">>

dangerous_keywords ==
    << <<"D","R","O","P">>,
       <<"D","E","L","E","T","E">>,
       <<"U","P","D","A","T","E">>,
       <<"I","N","S","E","R","T">>,
       <<"A","L","T","E","R">>,
       <<"C","R","E","A","T","E">>,
       <<"T","R","U","N","C","A","T","E">> >>

\* Faulty variant: the dangerous keywords are not looked for
validate_sql_no_denylist(sql_query) ==
    IF sql_query = <<>> THEN FALSE
    ELSE LET sql_upper == Strip(Upper(sql_query))
         IN  IF ~StartsWith(sql_upper, kwSELECT) THEN FALSE
             ELSE IF ~Contains(sql_upper, kwSELECT) \/ ~Contains(sql_upper, kwFROM) THEN FALSE
             ELSE TRUE

validate_sql(sql_query) ==
    IF sql_query = <<>> THEN FALSE
    ELSE LET sql_upper == Strip(Upper(sql_query))
         IN  IF ~StartsWith(sql_upper, kwSELECT) THEN FALSE
             ELSE IF AnyIn(dangerous_keywords, sql_upper) THEN FALSE
             ELSE IF ~Contains(sql_upper, kwSELECT) \/ ~Contains(sql_upper, kwFROM) THEN FALSE
             ELSE TRUE

\* The pattern of the re.search call is six backquotes and has no group.
FencePattern == <<BQ, BQ, BQ, BQ, BQ, BQ>>

\* The for loop over the lines, from the state (sql_lines, found_select).
RECURSIVE ScanLines(_, _, _)
ScanLines(lines, sql_lines, found_select) ==
    IF Len(lines) = 0 THEN sql_lines
    ELSE LET line  == Strip(Head(lines))
             found == found_select \/ StartsWith(Upper(line), kwSELECT)
         IN  IF ~found THEN ScanLines(Tail(lines), sql_lines, found)
             ELSE IF EndsWith(line, <<";">>) THEN Append(sql_lines, line)
             ELSE ScanLines(Tail(lines), Append(sql_lines, line), found)

end_markers == << <<";">>, <<"\n","\n">>, <<BQ, BQ, BQ>> >>

\* potential_sql cut at the first marker OF THE LIST that occurs in it.
CutAtMarker(potential_sql) ==
    LET present == {i \in 1..Len(end_markers) : Contains(potential_sql, end_markers[i])}
    IN  IF present = {} THEN potential_sql
        ELSE LET m == CHOOSE i \in present : \A j \in present : i <= j
             IN  Take(potential_sql, Find(potential_sql, end_markers[m]))

\* Result of _extract_sql: [ok |-> TRUE, sql |-> text] or [ok |-> FALSE, err |-> exception].
extract_sql(raw_response) ==
    LET text_response == Strip(raw_response)
        sql_lines     == ScanLines(SplitLines(text_response), <<>>, FALSE)
    IN  IF Contains(text_response, FencePattern)
        THEN [ok |-> FALSE, sql |-> <<>>, err |-> "IndexError"]
        ELSE IF Len(sql_lines) > 0
        THEN [ok |-> TRUE, sql |-> Join(<<"\n">>, sql_lines), err |-> NoError]
        ELSE IF Contains(Upper(text_response), kwSELECT)
        THEN LET select_pos    == Find(Upper(text_response), kwSELECT)
                 potential_sql == Strip(Drop(text_response, select_pos))
             IN  [ok |-> TRUE, sql |-> Strip(CutAtMarker(potential_sql)), err |-> NoError]
        ELSE [ok |-> FALSE, sql |-> <<>>, err |-> "ValueError"]

\* ------------------------------------------------------------ datetime
\* A datetime is [sec, us]: the second within one fixed minute and the
\* microsecond.  Now(c) is datetime.now() at tick c of a clock of half seconds.
Digits == <<"0","1","2","3","4","5","6","7","8","9">>

IsDigit(c) == \E i \in 1..10 : Digits[i] = c

DigitVal(c) == (CHOOSE i \in 1..10 : Digits[i] = c) - 1

Pow10(n) == IF n = 0 THEN 1 ELSE IF n = 1 THEN 10 ELSE IF n = 2 THEN 100
            ELSE IF n = 3 THEN 1000 ELSE IF n = 4 THEN 10000 ELSE 100000

\* the six digits of a microsecond field
MicroDigits(us) == [i \in 1..6 |-> Digits[((us \div Pow10(6 - i)) % 10) + 1]]

RECURSIVE DigitsVal(_)
DigitsVal(s) == IF Len(s) = 0 THEN 0
                ELSE DigitsVal(SubSeq(s, 1, Len(s) - 1)) * 10 + DigitVal(s[Len(s)])

Now(c) == [sec |-> (c \div 2) % 10, us |-> (c % 2) * 500000]

IsoMinute == <<"2","0","2","6","-","1","1","-","0","5","T","1","6",":","0","9",":","0">>

StrfMinute == <<"2","0","2","6","-","1","1","-","0","5"," ","1","6",":","0","9",":","0">>

\* datetime.isoformat(): the fraction is printed only when microsecond # 0
isoformat(ts) ==
    IsoMinute \o <<Digits[ts.sec + 1]>>
    \o (IF ts.us = 0 THEN <<>> ELSE <<".">> \o MicroDigits(ts.us))

\* datetime.fromisoformat(): [ok, ts]; ok = FALSE stands for ValueError
fromisoformat(s) ==
    LET bad == [ok |-> FALSE, ts |-> [sec |-> 0, us |-> 0]]
    IN  IF Len(s) < 19 \/ Take(s, 18) # IsoMinute THEN bad
        ELSE IF ~IsDigit(s[19]) THEN bad
        ELSE IF Len(s) = 19 THEN [ok |-> TRUE, ts |-> [sec |-> DigitVal(s[19]), us |-> 0]]
        ELSE IF Len(s) = 26 /\ s[20] = "." /\ \A i \in 21..26 : IsDigit(s[i])
        THEN [ok |-> TRUE,
              ts |-> [sec |-> DigitVal(s[19]), us |-> DigitsVal(SubSeq(s, 21, 26))]]
        ELSE bad

\* timestamp.strftime('%Y-%m-%d %H:%M:%S')
strftime(ts) == StrfMinute \o <<Digits[ts.sec + 1]>>

\* ------------------------------------------------------------ session_manager
\* Python None, for a field that holds text otherwise
None == <<"<None>">>

\* Python truthiness of an optional text
Truthy(x) == x # None /\ x # <<>>

ConversationItem(query, response_type, sql_query, result_summary, context_used, now) ==
    [query          |-> query,
     response_type  |-> response_type,
     sql_query      |-> sql_query,
     result_summary |-> result_summary,
     timestamp      |-> now,
     context_used   |-> context_used]

\* lst[-n:] for n >= 0.  As -0 is 0, lst[-0:] is the whole list.
PySliceLast(lst, n) ==
    IF n = 0 THEN lst
    ELSE SubSeq(lst, Max(Len(lst) - n, 0) + 1, Len(lst))

\* Faulty variant: the item is appended twice.
add_interaction_twice(history, item, maxh) ==
    LET appended == Append(Append(history, item), item)
    IN  IF Len(appended) > maxh THEN PySliceLast(appended, maxh) ELSE appended

\* Faulty variant: the truncation keeps the first interaction and drops the second.
add_interaction_pinning_first(history, item, maxh) ==
    LET appended == Append(history, item)
    IN  IF Len(appended) > maxh /\ maxh >= 2
        THEN <<appended[1]>> \o PySliceLast(appended, maxh - 1)
        ELSE IF Len(appended) > maxh THEN PySliceLast(appended, maxh) ELSE appended

\* The history after add_interaction appended item and truncated.
add_interaction(history, item, maxh) ==
    LET appended == Append(history, item)
    IN  IF Len(appended) > maxh THEN PySliceLast(appended, maxh) ELSE appended

\* limit is <<>> (None) or <<n>>
get_conversation_history(history, limit) ==
    IF limit # <<>> /\ limit[1] # 0 THEN PySliceLast(history, limit[1]) ELSE history

\* session_data is a dict, held as a set of <<key, value>> pairs
DictSet(d, key, value) == {kv \in d : kv[1] # key} \cup {<<key, value>>}

\* a value json.dump cannot encode (TypeError)
NotSerializable == "object"

JsonSerializable(d) == \A kv \in d : kv[2] # NotSerializable

\* The session file: absent, garbage (no JSON document), or a JSON document.
\* last_updated is written and never read; it is left out.
AbsentFile == [kind |-> "absent", conversation_history |-> <<>>, session_data |-> {}]

GarbageFile == [kind |-> "garbage", conversation_history |-> <<>>, session_data |-> {}]

\* Faulty variant: the timestamp is written to the second, without its microseconds.
ItemToJson_seconds(item) ==
    [item EXCEPT !.timestamp = isoformat([sec |-> item.timestamp.sec, us |-> 0])]

\* {**asdict(item), "timestamp": item.timestamp.isoformat()}
ItemToJson(item) == [item EXCEPT !.timestamp = isoformat(item.timestamp)]

\* _save_session: the file afterwards.  io is the outcome of the file system:
\* "ok", "open_fails" (open() raises, the file is untouched) or "write_fails"
\* (the write raises after open(..., 'w') truncated the file).  json.dump
\* raises TypeError in the middle of the document on a value it cannot encode.
\* No outcome raises to the caller.
save_session(history, data, file, io) ==
    IF io = "open_fails" THEN file
    ELSE IF io = "write_fails" \/ ~JsonSerializable(data) THEN GarbageFile
    ELSE [kind |-> "json",
          conversation_history |-> [i \in 1..Len(history) |-> ItemToJson(history[i])],
          session_data |-> data]

\* Faulty variant: a failed open or write is raised to the caller.
save_session_reraising(data, io) == io # "ok" \/ ~JsonSerializable(data)

\* Whether _save_session raises to its caller: its body is one try block whose
\* except Exception only logs, so it never does.
save_session_raises(data, io) == FALSE

\* session_data.get(key, default)
get_session_data(data, key, default) ==
    IF \E kv \in data : kv[1] = key
    THEN (CHOOSE kv \in data : kv[1] = key)[2]
    ELSE default

\* get_last_interaction_summary on an empty history
NoPreviousInteractions == <<"N","o"," ","p","r","e","v","i","o","u","s"," ","i","n","t","e","r","a","c","t","i","o","n","s">>

\* Faulty variant: only the history is emptied.
ClearedData_kept(data) == data

\* clear_session: the auxiliary data afterwards
ClearedData(data) == {}

\* s with its leading whitespace removed
RECURSIVE SkipWhitespace(_)
SkipWhitespace(s) ==
    IF s = <<>> THEN <<>>
    ELSE IF s[1] \in Whitespace THEN SkipWhitespace(Tail(s))
    ELSE s

\* length of the first word of s, which starts with a non-whitespace character
WordLen(s) ==
    IF \A i \in 1..Len(s) : s[i] \notin Whitespace THEN Len(s)
    ELSE (CHOOSE i \in 1..Len(s) :
              /\ s[i] \in Whitespace
              /\ \A j \in 1..(i - 1) : s[j] \notin Whitespace) - 1

\* s.split(): the words of s between runs of whitespace, none of them empty
RECURSIVE SplitWords(_)
SplitWords(s) ==
    LET t == SkipWhitespace(s)
    IN  IF t = <<>> THEN <<>>
        ELSE <<Take(t, WordLen(t))>> \o SplitWords(Drop(t, WordLen(t)))

\* set(words)
ToSet(seq) == {seq[i] : i \in 1..Len(seq)}

\* set(query.lower().split())
QueryWords(query) == ToSet(SplitWords(Lower(query)))

\* The body of the loop of find_relevant_context for one item: TRUE when the
\* item is appended.  The threshold is the rational num / den with den > 0.
IsRelevant(current_query, item, similarity_threshold) ==
    LET current_words == QueryWords(current_query)
        item_words    == QueryWords(item.query)
        intersection  == current_words \cap item_words
        union         == current_words \cup item_words
    IN  /\ union # {}
        /\ Cardinality(intersection) * similarity_threshold.den
               >= similarity_threshold.num * Cardinality(union)

\* relevant_items at the end of the loop
RECURSIVE RelevantItems(_, _, _)
RelevantItems(history, current_query, similarity_threshold) ==
    IF history = <<>> THEN <<>>
    ELSE (IF IsRelevant(current_query, Head(history), similarity_threshold)
          THEN <<Head(history)>> ELSE <<>>)
         \o RelevantItems(Tail(history), current_query, similarity_threshold)

\* Faulty variant: the threshold is not applied.
find_relevant_context_unfiltered(history, current_query, similarity_threshold) ==
    PySliceLast(history, 3)

find_relevant_context(history, current_query, similarity_threshold) ==
    PySliceLast(RelevantItems(history, current_query, similarity_threshold), 3)

get_last_interaction_summary(history) ==
    LET h == get_conversation_history(history, <<1>>)
    IN  IF Len(h) = 0 THEN NoPreviousInteractions
        ELSE LET last_interaction == h[Len(h)]
                 sql_clean == Join(<<" ">>, SplitWords(last_interaction.sql_query))
                 summary_parts ==
                     << <<"L","a","s","t"," ","Q","u","e","r","y",":"," ","'">> \o last_interaction.query \o <<"'">>,
                        <<"T","y","p","e",":"," ">> \o last_interaction.response_type >>
                     \o (IF Truthy(last_interaction.sql_query)
                         THEN << <<"S","Q","L",":"," ">> \o (IF Len(sql_clean) > 150
                                        THEN Take(sql_clean, 150) \o <<".", ".", ".">>
                                        ELSE sql_clean) >>
                         ELSE <<>>)
                     \o (IF Truthy(last_interaction.result_summary)
                         THEN << <<"R","e","s","u","l","t",":"," ">> \o last_interaction.result_summary >>
                         ELSE <<>>)
             IN  Join(<<" ", "|", " ">>, summary_parts)

\* ConversationItem(**item_data) after item_data["timestamp"] was parsed
JsonToItem(rec) == [rec EXCEPT !.timestamp = fromisoformat(rec.timestamp).ts]

\* The records loaded before the loop of _load_session raises or ends.
RECURSIVE LoadItems(_)
LoadItems(recs) ==
    IF Len(recs) = 0 THEN <<>>
    ELSE IF ~fromisoformat(Head(recs).timestamp).ok THEN <<>>
    ELSE <<JsonToItem(Head(recs))>> \o LoadItems(Tail(recs))

\* _load_session on a manager that __init__ just emptied: [history, data].
\* An exception leaves what was assigned before it.
load_session(file) ==
    IF file.kind # "json" THEN [history |-> <<>>, data |-> {}]
    ELSE LET recs == file.conversation_history
             good == \A i \in 1..Len(recs) : fromisoformat(recs[i].timestamp).ok
         IN  [history |-> LoadItems(recs),
              data    |-> IF good THEN file.session_data ELSE {}]

\* ------------------------------------------------------------ context_manager
\* f"{response_type}": the characters of a response type
TypeText(response_type) ==
    CASE response_type = "data_query"       -> <<"d","a","t","a","_","q","u","e","r","y">>
      [] response_type = "schema_query"     -> <<"s","c","h","e","m","a","_","q","u","e","r","y">>
      [] response_type = "general_response" -> <<"g","e","n","e","r","a","l","_","r","e","s","p","o","n","s","e">>
      [] OTHER                              -> <<"?">>

\* An external language-model call that raises
LlmFails == <<"<fails>">>

\* Faulty variant: the oldest interaction is formatted instead of the most recent
get_relevant_context_oldest(history) ==
    LET h == Take(history, 1)
    IN  IF Len(h) = 0 THEN <<>>
        ELSE LET last_interaction == h[Len(h)]
                 sql_query == Strip(last_interaction.sql_query)
                 context_parts ==
                     << <<"L","a","s","t"," ","i","n","t","e","r","a","c","t","i","o","n",":">>,
                        <<"U","s","e","r"," ","a","s","k","e","d",":"," ","'">> \o last_interaction.query \o <<"'">>,
                        <<"R","e","s","p","o","n","s","e"," ","t","y","p","e",":"," ">> \o last_interaction.response_type >>
                     \o (IF Truthy(last_interaction.sql_query)
                         THEN << <<"S","Q","L"," ","e","x","e","c","u","t","e","d",":"," ">> \o (IF Len(sql_query) > 200
                                        THEN Take(sql_query, 200) \o <<".", ".", ".">>
                                        ELSE sql_query) >>
                         ELSE <<>>)
                     \o (IF Truthy(last_interaction.result_summary)
                         THEN << <<"R","e","s","u","l","t",":"," ">> \o last_interaction.result_summary >>
                         ELSE <<>>)
                     \o << <<"T","i","m","e","s","t","a","m","p",":"," ">> \o strftime(last_interaction.timestamp) >>
             IN  Join(<<"\n">>, context_parts)

\* ContextManager.get_relevant_context: the text built from the last interaction
get_relevant_context(history) ==
    LET h == get_conversation_history(history, <<1>>)
    IN  IF Len(h) = 0 THEN <<>>
        ELSE LET last_interaction == h[Len(h)]
                 sql_query == Strip(last_interaction.sql_query)
                 context_parts ==
                     << <<"L","a","s","t"," ","i","n","t","e","r","a","c","t","i","o","n",":">>,
                        <<"U","s","e","r"," ","a","s","k","e","d",":"," ","'">> \o last_interaction.query \o <<"'">>,
                        <<"R","e","s","p","o","n","s","e"," ","t","y","p","e",":"," ">> \o last_interaction.response_type >>
                     \o (IF Truthy(last_interaction.sql_query)
                         THEN << <<"S","Q","L"," ","e","x","e","c","u","t","e","d",":"," ">> \o (IF Len(sql_query) > 200
                                        THEN Take(sql_query, 200) \o <<".", ".", ".">>
                                        ELSE sql_query) >>
                         ELSE <<>>)
                     \o (IF Truthy(last_interaction.result_summary)
                         THEN << <<"R","e","s","u","l","t",":"," ">> \o last_interaction.result_summary >>
                         ELSE <<>>)
                     \o << <<"T","i","m","e","s","t","a","m","p",":"," ">> \o strftime(last_interaction.timestamp) >>
             IN  Join(<<"\n">>, context_parts)

NoContextAvailable == <<"N","o"," ","p","r","e","v","i","o","u","s"," ","c","o","n","t","e","x","t"," ","a","v","a","i","l","a","b","l","e">>

ContextUnavailable == <<"C","o","n","t","e","x","t"," ","a","n","a","l","y","s","i","s"," ","u","n","a","v","a","i","l","a","b","l","e">>

\* determine_context_usage: llm is "fails" or the text of the completion
determine_context_usage(context, llm) ==
    IF context = <<>> THEN NoContextAvailable
    ELSE IF llm = LlmFails THEN ContextUnavailable
    ELSE Strip(llm)

\* context[:100] + "..." if len(context) > 100 else context
ContextPreview(context) ==
    IF Len(context) > 100 THEN Take(context, 100) \o <<".", ".", ".">> ELSE context

\* ------------------------------------------------------------ sql_generator
\* Faulty variant: the extracted SQL is returned without validation.
generate_sql_unchecked(llm) ==
    LET failed    == [ok |-> FALSE, sql |-> None, err |-> "ValueError"]
        extracted == extract_sql(llm)
    IN  IF llm = LlmFails THEN failed
        ELSE IF ~extracted.ok THEN failed
        ELSE [ok |-> TRUE, sql |-> extracted.sql, err |-> NoError]

\* generate_sql: [ok, sql, err].  llm is LlmFails or the completion.  Every
\* exception inside is re-raised as ValueError.
generate_sql(llm) ==
    LET failed    == [ok |-> FALSE, sql |-> None, err |-> "ValueError"]
        extracted == extract_sql(llm)
    IN  IF llm = LlmFails THEN failed
        ELSE IF ~extracted.ok THEN failed
        ELSE IF ~validate_sql(extracted.sql) THEN failed
        ELSE [ok |-> TRUE, sql |-> extracted.sql, err |-> NoError]

\* ------------------------------------------------------------ reference_resolver
\* Faulty variant: no short-circuit on an empty context.
resolve_without_shortcut(query, context, llm) ==
    IF llm = LlmFails THEN [ok |-> TRUE, query |-> query, calls |-> 1]
    ELSE [ok |-> TRUE, query |-> Strip(llm), calls |-> 1]

\* Faulty variant: a failed language-model call is not caught.
resolve_reraising(query, context, llm) ==
    IF context = <<>> THEN [ok |-> TRUE, query |-> query, calls |-> 0]
    ELSE IF llm = LlmFails THEN [ok |-> FALSE, query |-> query, calls |-> 1]
    ELSE [ok |-> TRUE, query |-> Strip(llm), calls |-> 1]

\* resolve_query_references: [ok, query, calls]; calls counts the language-model
\* calls made, ok = FALSE would be an exception leaving the resolver.
resolve_query_references(query, context, llm) ==
    IF context = <<>> THEN [ok |-> TRUE, query |-> query, calls |-> 0]
    ELSE IF llm = LlmFails THEN [ok |-> TRUE, query |-> query, calls |-> 1]
    ELSE [ok |-> TRUE, query |-> Strip(llm), calls |-> 1]

\* ------------------------------------------------------------ context_aware_processor
NoResponse ==
    [type |-> "none", sql_query |-> None, explanation |-> None, content |-> None,
     context_used |-> None, result_summary |-> None]

ExplanationPrefix == <<"I","'","l","l"," ","e","x","e","c","u","t","e"," ","t","h","i","s"," ","q","u","e","r","y"," ","t","o"," ","a","n","s","w","e","r"," ","y","o","u","r"," ","q","u","e","s","t","i","o","n",":"," ","'">>

QueryExecuted == <<"Q","u","e","r","y"," ","e","x","e","c","u","t","e","d"," ","s","u","c","c","e","s","s","f","u","l","l","y">>

SchemaContent == <<"H","e","r","e","'","s"," ","y","o","u","r"," ","d","a","t","a","b","a","s","e"," ","s","c","h","e","m","a"," ","i","n","f","o","r","m","a","t","i","o","n",".">>

TablesContent == <<"H","e","r","e"," ","a","r","e"," ","a","l","l"," ","t","h","e"," ","t","a","b","l","e","s"," ","i","n"," ","y","o","u","r"," ","d","a","t","a","b","a","s","e",".">>

SorryContent == <<"I","'","m"," ","s","o","r","r","y",","," ","I"," ","c","o","u","l","d","n","'","t"," ","p","r","o","c","e","s","s"," ","y","o","u","r"," ","r","e","q","u","e","s","t","."," ","P","l","e","a","s","e"," ","t","r","y"," ","a","s","k","i","n","g"," ","a","b","o","u","t"," ","y","o","u","r"," ","d","a","t","a"," ","o","r"," ","d","a","t","a","b","a","s","e"," ","s","c","h","e","m","a",".">>

NotSureContent == <<"I","'","m"," ","n","o","t"," ","s","u","r","e"," ","h","o","w"," ","t","o"," ","h","e","l","p"," ","w","i","t","h"," ","t","h","a","t","."," ","T","r","y"," ","a","s","k","i","n","g"," ","a","b","o","u","t"," ","y","o","u","r"," ","d","a","t","a"," ","o","r"," ","d","a","t","a","b","a","s","e"," ","s","c","h","e","m","a",".">>

\* Faulty variant: a failed generation is answered with an apology, as
\* _process_general_query does.
process_data_query_swallowing(query, context, llm_sql, llm_usage) ==
    LET gen == generate_sql(llm_sql)
    IN  IF ~gen.ok
        THEN [ok |-> TRUE, err |-> NoError,
              response |-> [NoResponse EXCEPT !.type = "general_response",
                                              !.content = SorryContent,
                                              !.context_used = <<>>]]
        ELSE [ok |-> TRUE, err |-> NoError,
              response |-> [NoResponse EXCEPT
                  !.type = "data_query",
                  !.sql_query = gen.sql,
                  !.explanation = ExplanationPrefix \o query \o <<"'">>,
                  !.context_used = determine_context_usage(context, llm_usage),
                  !.result_summary = QueryExecuted]]

\* Faulty variant: the response carries no result summary
process_data_query_no_summary(query, context, llm_sql, llm_usage) ==
    LET gen == generate_sql(llm_sql)
    IN  IF ~gen.ok THEN [ok |-> FALSE, response |-> NoResponse, err |-> "ValueError"]
        ELSE [ok |-> TRUE, err |-> NoError,
              response |-> [NoResponse EXCEPT
                  !.type = "data_query",
                  !.sql_query = gen.sql,
                  !.explanation = ExplanationPrefix \o query \o <<"'">>,
                  !.context_used = determine_context_usage(context, llm_usage)]]

\* _process_data_query: [ok, response, err]
process_data_query(query, context, llm_sql, llm_usage) ==
    LET gen == generate_sql(llm_sql)
    IN  IF ~gen.ok THEN [ok |-> FALSE, response |-> NoResponse, err |-> "ValueError"]
        ELSE [ok |-> TRUE, err |-> NoError,
              response |-> [NoResponse EXCEPT
                  !.type = "data_query",
                  !.sql_query = gen.sql,
                  !.explanation = ExplanationPrefix \o query \o <<"'">>,
                  !.context_used = determine_context_usage(context, llm_usage),
                  !.result_summary = QueryExecuted]]

process_schema_query(query, context) ==
    [ok |-> TRUE, err |-> NoError,
     response |-> [NoResponse EXCEPT !.type = "schema_query",
                                     !.content = SchemaContent,
                                     !.context_used = ContextPreview(context)]]

\* Faulty variant: the table list is answered with a type of its own
process_table_list_query_own_type(query, context) ==
    [ok |-> TRUE, err |-> NoError,
     response |-> [NoResponse EXCEPT !.type = "table_list",
                                     !.content = TablesContent,
                                     !.context_used = ContextPreview(context)]]

process_table_list_query(query, context) ==
    [ok |-> TRUE, err |-> NoError,
     response |-> [NoResponse EXCEPT !.type = "schema_query",
                                     !.content = TablesContent,
                                     !.context_used = ContextPreview(context)]]

\* _process_general_query: the except branch returns a response
process_general_query(query, context, llm) ==
    [ok |-> TRUE, err |-> NoError,
     response |-> IF llm = LlmFails
                  THEN [NoResponse EXCEPT !.type = "general_response",
                                          !.content = SorryContent,
                                          !.context_used = <<>>]
                  ELSE [NoResponse EXCEPT !.type = "general_response",
                                          !.content = llm,
                                          !.context_used = ContextPreview(context)]]

\* response.get("context_used", "")
GetContextUsed(response) == response.context_used

\* ------------------------------------------------------------ inputs
UserQueries == { <<"L","i","s","t"," ","t","a","b","l","e","s">>, <<"t","o","p"," ","a">>, <<"H","i">> }

ResolveCompletions == { <<" ","d","e","s","c","r","i","b","e"," ","t","\n">> }

SqlCompletions == { <<"S","E","L","E","C","T"," ","a"," ","F","R","O","M"," ","t",";">>, <<"D","R","O","P"," ","T","A","B","L","E"," ","t">>, <<"S","E","L","E","C","T"," ","a"," ","F","R","O","M"," ","t",";"," ","D","R","O","P"," ","T","A","B","L","E"," ","t">>, <<BQ, BQ, BQ, BQ, BQ, BQ>> }

GeneralCompletions == { <<"o","k">> }

UsageCompletions == { <<" ","u","s","e","d","\n">> }

AuxKeys == {"flag"}

AuxValues == {"on", NotSerializable}

IoOutcomes == {"ok", "write_fails"}

BadTimestamp == <<"b","a","d">>

\* ------------------------------------------------------------ state
VARIABLES
    max_history,            \* SessionManager.max_history
    conversation_history,   \* SessionManager.conversation_history
    session_data,           \* SessionManager.session_data
    session_file,           \* sessions/session_<id>.json
    clock,                  \* ticks of datetime.now(); one user turn per tick
    pc,                     \* position of the front end / process_query
    user_query,             \* process_query's argument
    follow_up_info,         \* local of process_query
    relevant_context,       \* local of process_query
    resolved_query,         \* local of process_query
    query_type,             \* local of process_query
    response,               \* the response object, NoResponse until built
    error,                  \* the exception process_query raised, NoError if none
    llm_response,           \* local of generate_sql: the completion, None before the call
    llm_calls,              \* language-model calls of the current call, per call site
    llm_failed,             \* call sites whose language-model call raised in this call
    appended,               \* add_interaction calls of the current call
    before,                 \* history, auxiliary data and file when the call began
    executed_sql,           \* what the front end passed to execute_query this turn
    last_message,           \* role of the last entry of st.session_state.messages
    last_call               \* the read-only call made last, with its arguments and result

store == <<max_history, conversation_history, session_data, session_file>>

call == <<user_query, follow_up_info, relevant_context, resolved_query, query_type,
          response, error, llm_response, llm_calls, llm_failed, appended, before>>

vars == <<max_history, conversation_history, session_data, session_file, clock, pc,
          user_query, follow_up_info, relevant_context, resolved_query, query_type,
          response, error, llm_response, llm_calls, llm_failed, appended, before,
          executed_sql, last_message, last_call>>

\* no read-only call made yet
NoCall == [op |-> "none", args |-> <<>>, result |-> <<>>]

NoCalls == [resolve |-> 0, generate |-> 0, usage |-> 0, general |-> 0]

NoFollowUp == detect_follow_up_patterns(<<>>)

Snapshot == [history |-> conversation_history, data |-> session_data, file |-> session_file]

\* SessionManager(session_id, max_history) in an empty sessions directory,
\* before the first user input.
Init ==
    /\ max_history \in 0..MaxHistoryBound
    /\ conversation_history = <<>>
    /\ session_data = {}
    /\ session_file = AbsentFile
    /\ clock = 0
    /\ pc = "idle"
    /\ user_query = <<>>
    /\ follow_up_info = NoFollowUp
    /\ relevant_context = <<>>
    /\ resolved_query = <<>>
    /\ query_type = "none"
    /\ response = NoResponse
    /\ error = NoError
    /\ llm_response = None
    /\ llm_calls = NoCalls
    /\ llm_failed = {}
    /\ appended = 0
    /\ before = [history |-> <<>>, data |-> {}, file |-> AbsentFile]
    /\ executed_sql = None
    /\ last_message = "none"
    /\ last_call = NoCall

\* ------------------------------------------------------------ session store
\* SessionManager.__init__ with the same session_id (the front end builds a new
\* manager on every database connection).
Construct(maxh) ==
    /\ pc = "idle"
    /\ max_history' = maxh
    /\ LET loaded == load_session(session_file)
       IN  /\ conversation_history' = loaded.history
           /\ session_data' = loaded.data
    /\ UNCHANGED <<last_call, session_file, clock, pc, call, executed_sql, last_message>>

ClearSession(io) ==
    /\ pc = "idle"
    /\ conversation_history' = <<>>
    /\ session_data' = ClearedData(session_data)
    /\ session_file' = save_session(conversation_history', session_data', session_file, io)
    /\ error' = IF save_session_raises(session_data', io) THEN "Exception" ELSE error
    /\ UNCHANGED <<last_call, max_history, clock, pc, user_query, follow_up_info, relevant_context,
                   resolved_query, query_type, response, llm_response, llm_calls,
                   llm_failed, appended, before, executed_sql, last_message>>

UpdateSessionData(key, value, io) ==
    /\ pc = "idle"
    /\ session_data' = DictSet(session_data, key, value)
    /\ session_file' = save_session(conversation_history, session_data', session_file, io)
    /\ error' = IF save_session_raises(session_data', io) THEN "Exception" ELSE error
    /\ UNCHANGED <<last_call, max_history, conversation_history, clock, pc, user_query,
                   follow_up_info, relevant_context, resolved_query, query_type, response,
                   llm_response, llm_calls, llm_failed, appended, before, executed_sql,
                   last_message>>

\* The file damaged from outside the program: overwritten with something that
\* is no JSON document, or the timestamp of one record of a sound document
\* made unreadable.
CorruptFile ==
    /\ pc = "idle"
    /\ session_file.kind = "json"
    /\ \/ session_file' = GarbageFile
       \/ \E i \in 1..Len(session_file.conversation_history) :
            /\ \A j \in 1..Len(session_file.conversation_history) :
                   session_file.conversation_history[j].timestamp # BadTimestamp
            /\ session_file' =
                 [session_file EXCEPT !.conversation_history[i].timestamp = BadTimestamp]
    /\ UNCHANGED <<last_call, max_history, conversation_history, session_data, clock, pc, call,
                   executed_sql, last_message>>

\* ------------------------------------------------------------ one user turn
\* app.py: the user message is appended and process_query is entered.
Receive(q) ==
    /\ pc = "idle"
    /\ clock < MaxTurns
    /\ clock' = clock + 1
    /\ pc' = "received"
    /\ user_query' = q
    /\ follow_up_info' = NoFollowUp
    /\ relevant_context' = <<>>
    /\ resolved_query' = <<>>
    /\ query_type' = "none"
    /\ response' = NoResponse
    /\ error' = NoError
    /\ llm_response' = None
    /\ llm_calls' = NoCalls
    /\ llm_failed' = {}
    /\ appended' = 0
    /\ before' = Snapshot
    /\ executed_sql' = None
    /\ last_message' = "user"
    /\ UNCHANGED <<store, last_call>>

DetectFollowUp ==
    /\ pc = "received"
    /\ follow_up_info' = detect_follow_up_patterns(user_query)
    /\ pc' = "followup_detected"
    /\ UNCHANGED <<last_call, store, clock, user_query, relevant_context, resolved_query, query_type,
                   response, error, llm_response, llm_calls, llm_failed, appended, before,
                   executed_sql, last_message>>

SelectContext ==
    /\ pc = "followup_detected"
    /\ relevant_context' = get_relevant_context(conversation_history)
    /\ pc' = "context_selected"
    /\ UNCHANGED <<last_call, store, clock, user_query, follow_up_info, resolved_query, query_type,
                   response, error, llm_response, llm_calls, llm_failed, appended, before,
                   executed_sql, last_message>>

\* What each language-model call site receives in the current state: a
\* completion or a failure where process_query makes the call, None where the
\* code does not reach the call.
ResolveOutcomes ==
    IF relevant_context # <<>> THEN ResolveCompletions \cup {LlmFails} ELSE {None}

SqlOutcomes ==
    IF query_type = "data_query" THEN SqlCompletions \cup {LlmFails} ELSE {None}

UsageOutcomes(llm_sql) ==
    IF query_type = "data_query" /\ relevant_context # <<>> /\ generate_sql(llm_sql).ok
    THEN UsageCompletions \cup {LlmFails} ELSE {None}

GeneralOutcomes ==
    IF query_type = "general" THEN GeneralCompletions \cup {LlmFails} ELSE {None}

ResolveReferences(llm) ==
    /\ pc = "context_selected"
    /\ llm \in ResolveOutcomes
    /\ LET r == resolve_query_references(user_query, relevant_context, llm)
       IN  /\ resolved_query' = r.query
           /\ llm_calls' = [llm_calls EXCEPT !.resolve = @ + r.calls]
           /\ llm_failed' = IF r.calls > 0 /\ llm = LlmFails
                             THEN llm_failed \cup {"resolve"} ELSE llm_failed
           /\ pc' = IF r.ok THEN "references_resolved" ELSE "raised"
           /\ error' = IF r.ok THEN NoError ELSE "Exception"
    /\ UNCHANGED <<last_call, store, clock, user_query, follow_up_info, relevant_context, query_type,
                   response, llm_response, appended, before, executed_sql, last_message>>

Classify ==
    /\ pc = "references_resolved"
    /\ query_type' = classify_query(resolved_query)
    /\ pc' = "classified"
    /\ UNCHANGED <<last_call, store, clock, user_query, follow_up_info, relevant_context,
                   resolved_query, response, error, llm_response, llm_calls, llm_failed,
                   appended, before, executed_sql, last_message>>

\* The branch of process_query chosen by query_type: [ok, response, err]
Branch(llm_sql, llm_usage, llm_general) ==
    IF query_type = "schema_request"
    THEN process_schema_query(resolved_query, relevant_context)
    ELSE IF query_type = "table_list"
    THEN process_table_list_query(resolved_query, relevant_context)
    ELSE IF query_type = "data_query"
    THEN process_data_query(resolved_query, relevant_context, llm_sql, llm_usage)
    ELSE IF query_type = "general"
    THEN process_general_query(resolved_query, relevant_context, llm_general)
    ELSE [ok |-> TRUE, err |-> NoError,
          response |-> [NoResponse EXCEPT !.type = "general_response",
                                          !.content = NotSureContent,
                                          !.context_used = <<>>]]

\* Faulty variant: a failed SQL generation is tried once more
BranchCalls_retrying(b) ==
    [llm_calls EXCEPT
       !.generate = @ + (IF query_type = "data_query" THEN (IF b.ok THEN 1 ELSE 2) ELSE 0),
       !.usage    = @ + (IF query_type = "data_query" /\ b.ok /\ relevant_context # <<>>
                         THEN 1 ELSE 0),
       !.general  = @ + (IF query_type = "general" THEN 1 ELSE 0)]

\* The language-model calls the branch makes
BranchCalls(b) ==
    [llm_calls EXCEPT
       !.generate = @ + (IF query_type = "data_query" THEN 1 ELSE 0),
       !.usage    = @ + (IF query_type = "data_query" /\ b.ok /\ relevant_context # <<>>
                         THEN 1 ELSE 0),
       !.general  = @ + (IF query_type = "general" THEN 1 ELSE 0)]

\* The call sites of the branch whose language-model call raised
BranchFailures(b, llm_sql, llm_usage, llm_general) ==
    {site \in {"generate", "usage", "general"} :
        \/ site = "generate" /\ query_type = "data_query" /\ llm_sql = LlmFails
        \/ site = "usage" /\ query_type = "data_query" /\ b.ok /\ relevant_context # <<>>
                            /\ llm_usage = LlmFails
        \/ site = "general" /\ query_type = "general" /\ llm_general = LlmFails}

Handle(llm_sql, llm_usage, llm_general) ==
    /\ pc = "classified"
    /\ llm_sql \in SqlOutcomes
    /\ llm_general \in GeneralOutcomes
    /\ llm_usage \in UsageOutcomes(llm_sql)
    /\ LET b == Branch(llm_sql, llm_usage, llm_general)
       IN  /\ response' = b.response
           /\ error' = b.err
           /\ llm_calls' = BranchCalls(b)
           /\ llm_failed' = llm_failed \cup BranchFailures(b, llm_sql, llm_usage, llm_general)
           /\ llm_response' = IF query_type = "data_query" THEN llm_sql ELSE llm_response
           /\ pc' = IF b.ok THEN "handled" ELSE "raised"
    /\ UNCHANGED <<last_call, store, clock, user_query, follow_up_info, relevant_context,
                   resolved_query, query_type, appended, before, executed_sql,
                   last_message>>

\* Faulty variant: the rewritten query is recorded instead of the user's text
NewItem_resolved ==
    ConversationItem(resolved_query, response.type, response.sql_query,
                     response.result_summary, GetContextUsed(response), Now(clock))

\* Faulty variant: the classification is recorded instead of the response's type
NewItem_classified ==
    ConversationItem(user_query, query_type, response.sql_query,
                     response.result_summary, GetContextUsed(response), Now(clock))

\* The ConversationItem process_query records for the response it built
NewItem ==
    ConversationItem(user_query, response.type, response.sql_query,
                     response.result_summary, GetContextUsed(response), Now(clock))

\* session_manager.add_interaction(...) of process_query, with its save, and
\* the return of the response.
AddInteraction(io) ==
    /\ pc = "handled"
    /\ conversation_history' = add_interaction(conversation_history, NewItem, max_history)
    /\ session_file' = save_session(conversation_history', session_data, session_file, io)
    /\ appended' = appended + 1
    /\ pc' = IF save_session_raises(session_data, io) THEN "raised" ELSE "returned"
    /\ error' = IF save_session_raises(session_data, io) THEN "Exception" ELSE error
    /\ UNCHANGED <<last_call, max_history, session_data, clock, user_query, follow_up_info,
                   relevant_context, resolved_query, query_type, response,
                   llm_response, llm_calls, llm_failed, before, executed_sql, last_message>>

\* process_query has returned or raised: its frame is gone.
EndOfCall ==
    /\ follow_up_info' = NoFollowUp
    /\ relevant_context' = <<>>
    /\ resolved_query' = <<>>
    /\ query_type' = "none"
    /\ llm_response' = None
    /\ llm_calls' = NoCalls
    /\ llm_failed' = {}
    /\ appended' = 0
    /\ before' = [history |-> <<>>, data |-> {}, file |-> AbsentFile]

\* app.py: dispatch on response["type"]; db is the outcome of execute_query.
FrontEndResponse(db) ==
    /\ pc = "returned"
    /\ IF response.type = "data_query"
       THEN /\ executed_sql' = response.sql_query
            /\ last_message' = IF db = "ok" THEN "assistant" ELSE "error"
       ELSE /\ db = "ok"
            /\ executed_sql' = executed_sql
            /\ last_message' = IF response.type \in {"schema_query", "general_response"}
                               THEN "assistant" ELSE "error"
    /\ pc' = "turn_done"
    /\ EndOfCall
    /\ UNCHANGED <<last_call, store, clock, user_query, response, error>>

\* app.py: except Exception -> an error message
FrontEndError ==
    /\ pc = "raised"
    /\ last_message' = "error"
    /\ pc' = "turn_done"
    /\ EndOfCall
    /\ UNCHANGED <<last_call, store, clock, user_query, response, error, executed_sql>>

\* app.py: st.rerun().  The script's locals are gone; the session manager and
\* the messages stay in st.session_state.
Rerun ==
    /\ pc = "turn_done"
    /\ pc' = "idle"
    /\ user_query' = <<>>
    /\ response' = NoResponse
    /\ error' = NoError
    /\ executed_sql' = None
    /\ UNCHANGED <<last_call, store, clock, follow_up_info, relevant_context, resolved_query,
                   query_type, llm_response, llm_calls, llm_failed, appended, before,
                   last_message>>

Next ==
    \/ \E maxh \in 0..MaxHistoryBound : Construct(maxh)
    \/ \E io \in IoOutcomes : ClearSession(io)
    \/ \E key \in AuxKeys, value \in AuxValues, io \in IoOutcomes :
         UpdateSessionData(key, value, io)
    \/ CorruptFile
    \/ \E q \in UserQueries : Receive(q)
    \/ DetectFollowUp
    \/ SelectContext
    \/ \E llm \in ResolveCompletions \cup {LlmFails, None} : ResolveReferences(llm)
    \/ Classify
    \/ \E llm_sql \in SqlCompletions \cup {LlmFails, None},
          llm_usage \in UsageCompletions \cup {LlmFails, None},
          llm_general \in GeneralCompletions \cup {LlmFails, None} :
         Handle(llm_sql, llm_usage, llm_general)
    \/ \E io \in IoOutcomes : AddInteraction(io)
    \/ \E db \in {"ok", "fails"} : FrontEndResponse(db)
    \/ FrontEndError
    \/ Rerun

Spec == Init /\ [][Next]_vars

\* The same program when every manager is constructed with max_history >= 1.
InitPositive == Init /\ max_history >= 1

NextPositive == Next /\ max_history' >= 1

SpecPositive == InitPositive /\ [][NextPositive]_vars

\* ------------------------------------------------------------ the store alone
\* The public methods of one SessionManager called in any order: the three
\* that change it and the reads.
MaxStoreOps == 3

StoreQueries == { <<"a">>, <<"b"," ","a">> }

\* add_interaction(query, response_type) called directly
AddInteractionCall(query, io) ==
    /\ pc = "idle"
    /\ clock < MaxStoreOps
    /\ clock' = clock + 1
    /\ before' = Snapshot
    /\ conversation_history' =
           add_interaction(conversation_history,
                           ConversationItem(query, "general_response", None, None, <<>>,
                                            Now(clock')),
                           max_history)
    /\ session_file' = save_session(conversation_history', session_data, session_file, io)
    /\ error' = IF save_session_raises(session_data, io) THEN "Exception" ELSE error
    /\ UNCHANGED <<last_call, max_history, session_data, pc, user_query, follow_up_info,
                   relevant_context, resolved_query, query_type, response, llm_response,
                   llm_calls, llm_failed, appended, executed_sql, last_message>>

GetLastInteractionSummary ==
    /\ pc = "idle"
    /\ last_call' = [op |-> "get_last_interaction_summary", args |-> <<>>,
                     result |-> get_last_interaction_summary(conversation_history)]
    /\ UNCHANGED <<store, clock, pc, call, executed_sql, last_message>>

\* ContextManager.get_relevant_context(query, follow_up_info)
GetRelevantContext(query, info) ==
    /\ pc = "idle"
    /\ last_call' = [op |-> "get_relevant_context", args |-> <<query, info>>,
                     result |-> get_relevant_context(conversation_history)]
    /\ UNCHANGED <<store, clock, pc, call, executed_sql, last_message>>

\* ------------------------------------------------------------ the context alone
\* ContextManager.get_relevant_context on any history of up to MaxContextLen
\* interactions as process_query records them: without SQL, or with the
\* trimmed statement generate_sql returned, short or long.
MaxContextLen == 2

\* a statement of n characters
SqlOfLength(n) == <<"S","E","L","E","C","T"," ">> \o [i \in 1..(n - 7) |-> "x"]

\* [query, response_type, sql_query, result_summary] of the recorded interactions
ContextItems ==
    { <<<<"h","i">>, "general_response", None, None>>,
      <<<<"t","o","p"," ","a">>, "data_query", <<"S","E","L","E","C","T"," ","a"," ","F","R","O","M"," ","t",";">>, QueryExecuted>>,
      <<<<"t","o","p"," ","b">>, "data_query", SqlOfLength(200), QueryExecuted>>,
      <<<<"t","o","p"," ","c">>, "data_query", SqlOfLength(201), QueryExecuted>>,
      <<<<"t","o","p"," ","d">>, "data_query", SqlOfLength(260), QueryExecuted>> }

ContextHistories ==
    UNION { [1..n -> ContextItems] : n \in 0..MaxContextLen }

\* the history made of the items f, recorded one per tick
ContextHistory(f) ==
    [i \in 1..Len(f) |-> ConversationItem(f[i][1], f[i][2], f[i][3], f[i][4], <<>>, Now(i))]

InitContext ==
    /\ max_history = MaxContextLen
    /\ \E f \in ContextHistories : conversation_history = ContextHistory(f)
    /\ session_data = {}
    /\ session_file = save_session(conversation_history, session_data, AbsentFile, "ok")
    /\ clock = Len(conversation_history)
    /\ pc = "idle"
    /\ user_query = <<>>
    /\ follow_up_info = NoFollowUp
    /\ relevant_context = <<>>
    /\ resolved_query = <<>>
    /\ query_type = "none"
    /\ response = NoResponse
    /\ error = NoError
    /\ llm_response = None
    /\ llm_calls = NoCalls
    /\ llm_failed = {}
    /\ appended = 0
    /\ before = Snapshot
    /\ executed_sql = None
    /\ last_message = "none"
    /\ last_call = NoCall

\* the current query of the turn, with its follow-up signal
ContextQueries ==
    { <<"w","h","a","t"," ","a","b","o","u","t"," ","i","t">>,
      <<"s","h","o","w"," ","t","o","t","a","l"," ","s","a","l","e","s"," ","b","y"," ","r","e","g","i","o","n">>,
      <<"h","i">> }

NextContext ==
    \E q \in ContextQueries : GetRelevantContext(q, detect_follow_up_patterns(q))

SpecContext == InitContext /\ [][NextContext]_vars

\* ------------------------------------------------------------ the session sweep
\* cleanup_old_sessions has no caller in the application; it is a public method
\* that any holder of a SessionManager may run while the session is in use.

\* the days_old argument
DaysOld == {0, 7}

\* Days between the file's last modification and the sweep's datetime.now();
\* the time that passes between two steps is the environment's.
FileAges == {0, 1, 8}

\* The session's file after the sweep of the sessions directory: every
\* session_*.json file modified before the cutoff is removed.
cleanup_old_sessions(file, days_old, age) ==
    IF file.kind # "absent" /\ age > days_old THEN AbsentFile ELSE file

CleanupOldSessions(days_old, age) ==
    /\ session_file' = cleanup_old_sessions(session_file, days_old, age)
    /\ UNCHANGED <<last_call, max_history, conversation_history, session_data, clock, pc,
                   call, executed_sql, last_message>>

NextSweep ==
    \/ Next
    \/ \E days_old \in DaysOld, age \in FileAges : CleanupOldSessions(days_old, age)

SpecSweep == Init /\ [][NextSweep]_vars

\* ------------------------------------------------------------ read-only calls
\* A session manager holding any history of up to MaxReaderLen interactions,
\* on which the read-only methods are called.
MaxReaderLen == 4

ReaderQueries == { <<"a"," ","b">>, <<"A">>, <<" ">> }

Thresholds == { [num |-> 0, den |-> 1], [num |-> 3, den |-> 10], [num |-> 1, den |-> 1] }

ReaderItem(query, i) == ConversationItem(query, "general_response", None, None, <<>>, Now(i))

ReaderHistories ==
    UNION { { [i \in 1..n |-> ReaderItem(qs[i], i)] : qs \in [1..n -> ReaderQueries] }
            : n \in 0..MaxReaderLen }

InitReaders ==
    /\ max_history = MaxReaderLen
    /\ conversation_history \in ReaderHistories
    /\ session_data = {}
    /\ session_file = save_session(conversation_history, session_data, AbsentFile, "ok")
    /\ clock = 0
    /\ pc = "idle"
    /\ user_query = <<>>
    /\ follow_up_info = NoFollowUp
    /\ relevant_context = <<>>
    /\ resolved_query = <<>>
    /\ query_type = "none"
    /\ response = NoResponse
    /\ error = NoError
    /\ llm_response = None
    /\ llm_calls = NoCalls
    /\ llm_failed = {}
    /\ appended = 0
    /\ before = Snapshot
    /\ executed_sql = None
    /\ last_message = "none"
    /\ last_call = NoCall

FindRelevantContext(q, t) ==
    /\ pc = "idle"
    /\ last_call' = [op |-> "find_relevant_context", args |-> <<q, t>>,
                     result |-> find_relevant_context(conversation_history, q, t)]
    /\ UNCHANGED <<store, clock, pc, call, executed_sql, last_message>>

\* limit: None (<<>>) or an integer >= 0
Limits == {<<>>} \cup { <<n>> : n \in 0..(MaxReaderLen + 1) }

GetConversationHistory(limit) ==
    /\ pc = "idle"
    /\ last_call' = [op |-> "get_conversation_history", args |-> <<limit>>,
                     result |-> get_conversation_history(conversation_history, limit)]
    /\ UNCHANGED <<store, clock, pc, call, executed_sql, last_message>>

DetectQueries ==
    { <<"w","h","a","t"," ","a","b","o","u","t"," ","i","t">>,
      <<"s","h","o","w"," ","t","o","t","a","l"," ","s","a","l","e","s"," ","b","y"," ","r","e","g","i","o","n">>,
      <<"S","a","l","e","s"," ","A","N","D"," ","p","r","o","f","i","t">>,
      <<"t","h","e"," ","y","e","a","r"," ","b","e","f","o","r","e">>,
      <<"S","h","o","w"," ","t","h","e"," ","S","A","M","E"," ","a","g","a","i","n">> }

DetectFollowUpPatterns(q) ==
    /\ pc = "idle"
    /\ last_call' = [op |-> "detect_follow_up_patterns", args |-> <<q>>,
                     result |-> detect_follow_up_patterns(q)]
    /\ UNCHANGED <<store, clock, pc, call, executed_sql, last_message>>

ClassifyQueries ==
    { <<"s","h","o","w"," ","m","e"," ","a","l","l"," ","t","a","b","l","e","s">>,
      <<"d","e","s","c","r","i","b","e"," ","t","h","e"," ","o","r","d","e","r","s"," ","t","a","b","l","e">>,
      <<"w","h","a","t"," ","a","r","e"," ","t","h","e"," ","t","o","p"," ","5"," ","c","u","s","t","o","m","e","r","s"," ","b","y"," ","r","e","v","e","n","u","e">>,
      <<"h","e","l","l","o",","," ","h","o","w"," ","a","r","e"," ","y","o","u">>,
      <<"s","h","o","w"," ","m","e"," ","d","a","t","a">>,
      <<"L","i","s","t"," ","t","h","e"," ","C","O","L","U","M","N","S">>,
      <<"S","h","o","w"," ","t","h","e"," ","s","t","r","u","c","t","u","r","e">> }

ClassifyQuery(q) ==
    /\ pc = "idle"
    /\ last_call' = [op |-> "classify_query", args |-> <<q>>,
                     result |-> <<classify_query(q)>>]
    /\ UNCHANGED <<store, clock, pc, call, executed_sql, last_message>>

SqlTexts ==
    { <<>>,
      <<"S","E","L","E","C","T"," ","*"," ","F","R","O","M"," ","o","r","d","e","r","s"," ","L","I","M","I","T"," ","1","0","0">>,
      <<"D","R","O","P"," ","T","A","B","L","E"," ","o","r","d","e","r","s">>,
      <<"U","P","D","A","T","E"," ","o","r","d","e","r","s"," ","S","E","T"," ","x","=","1">>,
      <<"S","E","L","E","C","T"," ","u","p","d","a","t","e","d","_","a","t"," ","F","R","O","M"," ","o","r","d","e","r","s">>,
      <<" "," ","s","e","l","e","c","t"," ","a"," ","f","r","o","m"," ","t"," ">>,
      <<"S","E","L","E","C","T"," ","1">>,
      <<" "," ">> }

ValidateSql(sql) ==
    /\ pc = "idle"
    /\ last_call' = [op |-> "validate_sql", args |-> <<sql>>,
                     result |-> <<validate_sql(sql)>>]
    /\ UNCHANGED <<store, clock, pc, call, executed_sql, last_message>>

\* completions of the language model handed to _extract_sql
ExtractTexts ==
    { <<BQ,BQ,BQ,"s","q","l","\n","S","E","L","E","C","T"," ","a"," ","F","R","O","M"," ","t","\n",BQ,BQ,BQ>>,
      <<BQ,BQ,BQ,"s","q","l","\n","S","E","L","E","C","T"," ","a"," ","F","R","O","M"," ","t",";","\n",BQ,BQ,BQ>>,
      <<"S","u","r","e",":","\n","s","e","l","e","c","t"," ","a","\n","f","r","o","m"," ","t",";","\n","b","y","e">>,
      <<"R","u","n",":"," ","S","E","L","E","C","T"," ","a"," ","F","R","O","M"," ","t","\n","\n","T","h","a","n","k","s",";"," ","b","y","e">>,
      <<"U","s","e"," ","S","E","L","E","C","T"," ","a"," ","F","R","O","M"," ","t",";"," ","o","k">>,
      <<BQ,BQ,BQ,BQ,BQ,BQ>>,
      <<"n","o"," ","s","q","l">> }

ExtractSql(text) ==
    /\ pc = "idle"
    /\ last_call' = [op |-> "extract_sql", args |-> <<text>>,
                     result |-> extract_sql(text)]
    /\ UNCHANGED <<store, clock, pc, call, executed_sql, last_message>>

NextReaders ==
    \/ \E q \in ReaderQueries, t \in Thresholds : FindRelevantContext(q, t)
    \/ \E limit \in Limits : GetConversationHistory(limit)
    \/ \E q \in DetectQueries : DetectFollowUpPatterns(q)
    \/ \E q \in ClassifyQueries : ClassifyQuery(q)
    \/ \E sql \in SqlTexts : ValidateSql(sql)
    \/ \E text \in ExtractTexts : ExtractSql(text)

SpecReaders == InitReaders /\ [][NextReaders]_vars

\* The store alone: its mutating methods and its reads in any order.
NextStore ==
    \/ \E q \in StoreQueries, io \in IoOutcomes : AddInteractionCall(q, io)
    \/ \E io \in IoOutcomes : ClearSession(io)
    \/ \E key \in AuxKeys, value \in AuxValues, io \in IoOutcomes :
         UpdateSessionData(key, value, io)
    \/ \E limit \in {<<>>, <<1>>} : GetConversationHistory(limit)
    \/ GetLastInteractionSummary
    \/ \E q \in {<<"a">>} : GetRelevantContext(q, detect_follow_up_patterns(q))
    \/ \E q \in {<<"a">>} : FindRelevantContext(q, [num |-> 3, den |-> 10])

SpecStore == Init /\ [][NextStore]_vars

\* ------------------------------------------------------------ claims
\* process_query is running, or has just returned or raised
InCall == pc \notin {"idle", "turn_done"}

\* process_query has just raised / just returned its response
Raised == pc = "raised"

Returned == pc = "returned"

\* the resolver / the classifier has run in this call
AfterResolve == pc \in {"references_resolved", "classified", "handled", "returned", "raised"}

AfterClassify == AfterResolve /\ query_type # "none"

\* s is t with zero or more leading items dropped
IsSuffixOf(s, t) == Len(s) <= Len(t) /\ s = SubSeq(t, Len(t) - Len(s) + 1, Len(t))

\* C1: after add_interaction the history is no longer than max_history and is
\* exactly the most recent items of (old history + new item), in order.
C1_BoundedMostRecent ==
    Returned =>
        LET all == Append(before.history, NewItem)
        IN  /\ Len(conversation_history) <= max_history
            /\ Len(conversation_history) = Min(max_history, Len(all))
            /\ IsSuffixOf(conversation_history, all)

\* C2: neither the history a reader gets nor the history in the session file
\* is ever longer than max_history.  Checked under SpecPositive, where no
\* manager has max_history = 0 (that case is C1's).
C2_ReaderNeverSeesMore ==
    /\ Len(get_conversation_history(conversation_history, <<>>)) <= max_history
    /\ session_file.kind = "json" =>
           Len(session_file.conversation_history) <= max_history

\* C3: a process_query call that raises leaves history, auxiliary data and
\* file as they were when it began; a call that returns has appended exactly
\* one interaction, the one built from its response, and nothing is appended
\* before the response exists.
C3_NoPartialPersist ==
    /\ Raised =>
           /\ appended = 0
           /\ response = NoResponse
           /\ conversation_history = before.history
           /\ session_data = before.data
           /\ session_file = before.file
    /\ Returned =>
           /\ appended = 1
           /\ IsSuffixOf(conversation_history, Append(before.history, NewItem))
           /\ Len(conversation_history) <= Len(before.history) + 1
           /\ session_data = before.data
    /\ appended > 0 => response.type # "none"
    /\ (InCall /\ ~Returned) => appended = 0 /\ conversation_history = before.history

C3_Witness ==
    /\ Raised
    /\ Len(before.history) > 0
    /\ before.file.kind = "json"

\* What C4 calls a validated statement
C4_Vetted(sql) ==
    LET u == Strip(Upper(sql))
    IN  /\ StartsWith(u, kwSELECT)
        /\ Contains(u, kwFROM)
        /\ \A i \in 1..Len(dangerous_keywords) : ~Contains(u, dangerous_keywords[i])

\* C4: every SQL statement in a data_query response, in an interaction of the
\* history, or passed to execute_query starts with SELECT, contains FROM and
\* contains no denylisted keyword.
C4_OnlyValidatedSql ==
    /\ response.type = "data_query" => C4_Vetted(response.sql_query)
    /\ executed_sql # None => C4_Vetted(executed_sql)
    /\ \A i \in 1..Len(conversation_history) :
           conversation_history[i].sql_query # None =>
               C4_Vetted(conversation_history[i].sql_query)

C4_Witness ==
    /\ executed_sql # None
    /\ Len(conversation_history) > 0
    /\ conversation_history[Len(conversation_history)].sql_query = executed_sql

\* The completion gives no usable SQL: the call failed, nothing to extract, or
\* the extracted text is not a vetted SELECT
C5_BadCompletion(llm) ==
    \/ llm = LlmFails
    \/ ~extract_sql(llm).ok
    \/ ~C4_Vetted(extract_sql(llm).sql)

\* C5: when the SQL completion of a data query fails, cannot be extracted or
\* fails validation, process_query raises ValueError without a response, and
\* the front end then records an error message, not an assistant message.
C5_SqlFailurePropagates ==
    /\ (query_type = "data_query" /\ llm_response # None /\ C5_BadCompletion(llm_response)) =>
           /\ Raised
           /\ error = "ValueError"
           /\ response = NoResponse
    /\ (pc = "turn_done" /\ error # NoError) => last_message = "error"

C5_Witness ==
    /\ pc = "turn_done"
    /\ error = "ValueError"
    /\ last_message = "error"

\* C6: a process_query call in which the language model failed while
\* answering a general query or while determining context usage ends by
\* raising: no response, no append.
C6_BranchFailureFailsCall ==
    ((Returned \/ Raised) /\ llm_failed \cap {"general", "usage"} # {}) =>
        /\ Raised
        /\ response = NoResponse
        /\ appended = 0

\* C7: with empty context the resolver returns the query unchanged and calls
\* no language model; so the first call on an empty history classifies the
\* user's own text.
C7_EmptyContextShortCircuit ==
    /\ (InCall /\ pc \notin {"received", "followup_detected"} /\ before.history = <<>>) =>
           relevant_context = <<>>
    /\ (AfterResolve /\ relevant_context = <<>>) =>
           /\ resolved_query = user_query
           /\ llm_calls.resolve = 0
    /\ (AfterClassify /\ before.history = <<>>) =>
           query_type = classify_query(user_query)

C7_Witness ==
    /\ pc = "handled"
    /\ before.history = <<>>
    /\ relevant_context = <<>>
    /\ query_type = "data_query"

\* C8: when the resolver's language-model call fails, the resolver returns the
\* original query, and process_query goes on to classify and handle that
\* query; the call can then fail only in SQL generation.
C8_ResolverFailureFallsBack ==
    "resolve" \in llm_failed =>
        /\ AfterResolve
        /\ resolved_query = user_query
        /\ pc # "references_resolved" => query_type = classify_query(user_query)
        /\ Raised =>
               /\ query_type = "data_query"
               /\ C5_BadCompletion(llm_response)

C8_Witness ==
    /\ "resolve" \in llm_failed
    /\ pc = "returned"
    /\ llm_calls.resolve = 1

\* C9: saving a session and loading the file gives back the same history,
\* item by item, all six fields equal.
C9_SaveLoadRoundTrip ==
    JsonSerializable(session_data) =>
        /\ load_session(save_session(conversation_history, session_data,
                                     session_file, "ok")).history = conversation_history
        /\ session_file = save_session(conversation_history, session_data, AbsentFile, "ok")
               => load_session(session_file).history = conversation_history

C9_Witness ==
    /\ Len(conversation_history) = 2
    /\ conversation_history[1].timestamp.us # conversation_history[2].timestamp.us
    /\ session_file = save_session(conversation_history, session_data, AbsentFile, "ok")
    /\ load_session(session_file).history = conversation_history

\* The file is missing, is no JSON document, or holds an unreadable record
C10_MissingOrCorrupt(file) ==
    \/ file.kind # "json"
    \/ \E i \in 1..Len(file.conversation_history) :
           ~fromisoformat(file.conversation_history[i].timestamp).ok

\* C10: constructing a manager on a missing or corrupt file gives an empty
\* session: empty history, empty auxiliary data.
C10_CorruptLoadsEmpty ==
    C10_MissingOrCorrupt(session_file) =>
        /\ load_session(session_file).history = <<>>
        /\ load_session(session_file).data = {}

\* C11: when the write of the session file fails (the file system refuses it,
\* or the auxiliary data cannot be encoded) during add_interaction,
\* clear_session or update_session_data, nothing is raised and the readers
\* see the mutated state: the new item is the last of the history, the history
\* and data are empty, or the key holds the new value.
C11_WriteFailed(data, io) == io = "write_fails" \/ ~JsonSerializable(data)

C11_SaveFailureKeepsMemory ==
    [][/\ \A io \in IoOutcomes :
            (AddInteraction(io) /\ C11_WriteFailed(session_data, io)) =>
                /\ pc' = "returned"
                /\ error' = NoError
                /\ LET h == get_conversation_history(conversation_history', <<>>)
                   IN  /\ Len(h) >= 1
                       /\ h[Len(h)] = NewItem
       /\ \A io \in IoOutcomes :
            (ClearSession(io) /\ C11_WriteFailed({}, io)) =>
                /\ error' = NoError
                /\ get_conversation_history(conversation_history', <<>>) = <<>>
                /\ session_data' = {}
       /\ \A key \in AuxKeys, value \in AuxValues, io \in IoOutcomes :
            (UpdateSessionData(key, value, io) /\ C11_WriteFailed(session_data', io)) =>
                /\ error' = NoError
                /\ get_session_data(session_data', key, None) = value
                /\ conversation_history' = conversation_history
      ]_vars

C11_Witness ==
    /\ pc = "returned"
    /\ before.file.kind = "json"
    /\ session_file = GarbageFile
    /\ Len(conversation_history) = Len(before.history) + 1
    /\ conversation_history[Len(conversation_history)] = NewItem

\* item is an interaction of the history whose Jaccard similarity with q,
\* |intersection| / |union| of the two word sets, is defined and >= t
C12_Similar(q, item, t) ==
    LET a == QueryWords(q)
        b == QueryWords(item.query)
    IN  /\ \E i \in 1..Len(conversation_history) : conversation_history[i] = item
        /\ Cardinality(a \cup b) > 0
        /\ Cardinality(a \cap b) * t.den >= t.num * Cardinality(a \cup b)

\* C12: find_relevant_context(q, t) returns only interactions of the history
\* whose Jaccard similarity with q is >= t, nothing for an empty history, and
\* never more than 3 items.
C12_OnlySimilarAtMostThree ==
    last_call.op = "find_relevant_context" =>
        /\ \A i \in 1..Len(last_call.result) :
               C12_Similar(last_call.args[1], last_call.result[i], last_call.args[2])
        /\ conversation_history = <<>> => last_call.result = <<>>
        /\ Len(last_call.result) <= 3

C12_Witness ==
    /\ last_call.op = "find_relevant_context"
    /\ last_call.args[2] = [num |-> 3, den |-> 10]
    /\ Len(conversation_history) = 4
    /\ Len(last_call.result) = 3
    /\ last_call.result[1] = conversation_history[1]

\* The interactions that qualify when the similarity counts as 0 for an
\* empty union
RECURSIVE C13_Qualifying(_, _, _)
C13_Qualifying(history, q, t) ==
    IF history = <<>> THEN <<>>
    ELSE LET a == QueryWords(q)
             b == QueryWords(Head(history).query)
             qualifies == IF a \cup b = {} THEN t.num <= 0
                          ELSE Cardinality(a \cap b) * t.den
                                   >= t.num * Cardinality(a \cup b)
         IN  (IF qualifies THEN <<Head(history)>> ELSE <<>>)
             \o C13_Qualifying(Tail(history), q, t)

\* C13: find_relevant_context(q, t) returns exactly the up to 3 most recent
\* qualifying interactions in chronological order, an interaction with an
\* empty union qualifying iff t <= 0, and leaves the history as it was.
C13_ExactlyMostRecentThree ==
    last_call.op = "find_relevant_context" =>
        /\ LET all == C13_Qualifying(conversation_history, last_call.args[1],
                                      last_call.args[2])
           IN  last_call.result = SubSeq(all, Max(Len(all) - 3, 0) + 1, Len(all))
        /\ conversation_history = before.history

\* C14: a clear_session leaves the history and the auxiliary data empty,
\* get_last_interaction_summary then returns 'No previous interactions', and
\* when the write succeeded the file holds the empty state: loading it gives
\* an empty session.
C14_ClearEmptiesAll ==
    [][\A io \in IoOutcomes :
          ClearSession(io) =>
              /\ get_conversation_history(conversation_history', <<>>) = <<>>
              /\ session_data' = {}
              /\ get_last_interaction_summary(conversation_history')
                     = NoPreviousInteractions
              /\ io = "ok" =>
                     /\ session_file'.kind = "json"
                     /\ session_file'.conversation_history = <<>>
                     /\ session_file'.session_data = {}
                     /\ load_session(session_file') = [history |-> <<>>, data |-> {}]
      ]_vars

C14_Witness ==
    /\ pc = "idle"
    /\ clock >= 1
    /\ conversation_history = <<>>
    /\ session_data = {}
    /\ session_file = save_session(<<>>, {}, AbsentFile, "ok")
    /\ get_last_interaction_summary(conversation_history) = NoPreviousInteractions

\* C15: get_conversation_history(limit) with a limit >= 0 returns the
\* min(limit, len(history)) most recent interactions in order (none for
\* limit 0), the full history with no limit, and changes neither the history
\* nor the auxiliary data.
C15_MostRecentLimit ==
    last_call.op = "get_conversation_history" =>
        LET limit == last_call.args[1]
            n     == Len(conversation_history)
        IN  /\ limit = <<>> => last_call.result = conversation_history
            /\ limit # <<>> =>
                   last_call.result =
                       SubSeq(conversation_history, n - Min(limit[1], n) + 1, n)
            /\ conversation_history = before.history
            /\ session_data = before.data

\* The words C16 counts as follow-up indicators: the pronoun references, the
\* temporal references, the continuation markers, and above / same / similar
C16_Union ==
    pronoun_references \o time_references \o continuation_words
    \o << <<"a","b","o","v","e">>, <<"s","a","m","e">>, <<"s","i","m","i","l","a","r">> >>

\* C16: is_follow_up is true iff the lower-cased query contains a word of
\* that union; so it is true whenever has_pronouns, has_time_refs or
\* has_continuation is.
C16_FollowUpIffUnion ==
    last_call.op = "detect_follow_up_patterns" =>
        LET r == last_call.result
        IN  /\ r.is_follow_up <=> AnyIn(C16_Union, Lower(last_call.args[1]))
            /\ (r.has_pronouns \/ r.has_time_refs \/ r.has_continuation) => r.is_follow_up

\* a schema keyword occurs in the lower-cased text
C17_HasSchemaKeyword(q) == \E i \in 1..Len(schema_keywords) : Contains(Lower(q), schema_keywords[i])

\* a data keyword occurs in the lower-cased text
C17_HasDataKeyword(q) == \E i \in 1..Len(data_keywords) : Contains(Lower(q), data_keywords[i])

\* 'table' occurs together with 'list' or 'show'
C17_ListsTables(q) ==
    /\ Contains(Lower(q), <<"t","a","b","l","e">>)
    /\ Contains(Lower(q), <<"l","i","s","t">>) \/ Contains(Lower(q), <<"s","h","o","w">>)

\* the label the five examples of the claim are to get
C17_Example(q) ==
    CASE q = <<"s","h","o","w"," ","m","e"," ","a","l","l"," ","t","a","b","l","e","s">> -> "table_list"
      [] q = <<"d","e","s","c","r","i","b","e"," ","t","h","e"," ","o","r","d","e","r","s"," ","t","a","b","l","e">> -> "schema_request"
      [] q = <<"w","h","a","t"," ","a","r","e"," ","t","h","e"," ","t","o","p"," ","5"," ","c","u","s","t","o","m","e","r","s"," ","b","y"," ","r","e","v","e","n","u","e">> -> "data_query"
      [] q = <<"h","e","l","l","o",","," ","h","o","w"," ","a","r","e"," ","y","o","u">> -> "general"
      [] q = <<"s","h","o","w"," ","m","e"," ","d","a","t","a">> -> "data_query"
      [] OTHER -> "any"

\* C17: classify_query returns table_list iff a schema keyword occurs and
\* 'table' occurs with 'list' or 'show'; otherwise schema_request iff a
\* schema keyword occurs; otherwise data_query iff a data keyword occurs;
\* otherwise general; and the five example queries get the stated labels.
C17_ClassifyPrecedence ==
    last_call.op = "classify_query" =>
        LET q == last_call.args[1]
            r == last_call.result[1]
        IN  /\ r \in {"table_list", "schema_request", "data_query", "general"}
            /\ r = "table_list" <=> C17_HasSchemaKeyword(q) /\ C17_ListsTables(q)
            /\ r = "schema_request" <=> C17_HasSchemaKeyword(q) /\ ~C17_ListsTables(q)
            /\ r = "data_query" <=> ~C17_HasSchemaKeyword(q) /\ C17_HasDataKeyword(q)
            /\ r = "general" <=> ~C17_HasSchemaKeyword(q) /\ ~C17_HasDataKeyword(q)
            /\ C17_Example(q) \in {"any", r}

\* 'show me data' was classified: 'show' without a schema keyword is a data query
C17_Witness ==
    /\ last_call.op = "classify_query"
    /\ last_call.args[1] = <<"s","h","o","w"," ","m","e"," ","d","a","t","a">>
    /\ last_call.result[1] = "data_query"

\* the answer the example statements of the claim are to get
C18_Example(sql) ==
    CASE sql = <<"S","E","L","E","C","T"," ","*"," ","F","R","O","M"," ","o","r","d","e","r","s"," ","L","I","M","I","T"," ","1","0","0">> -> <<TRUE>>
      [] sql = <<"D","R","O","P"," ","T","A","B","L","E"," ","o","r","d","e","r","s">> -> <<FALSE>>
      [] sql = <<"U","P","D","A","T","E"," ","o","r","d","e","r","s"," ","S","E","T"," ","x","=","1">> -> <<FALSE>>
      [] sql = <<"S","E","L","E","C","T"," ","u","p","d","a","t","e","d","_","a","t"," ","F","R","O","M"," ","o","r","d","e","r","s">> -> <<FALSE>>
      [] sql = <<>> -> <<FALSE>>
      [] OTHER -> <<TRUE, FALSE>>

\* C18: validate_sql returns true iff the trimmed, upper-cased text starts
\* with SELECT, contains FROM and contains no dangerous keyword as a
\* substring; it returns false for empty text, and the example statements
\* get the stated answers.
C18_ValidateIff ==
    last_call.op = "validate_sql" =>
        LET sql == last_call.args[1]
            up  == Strip(Upper(sql))
            r   == last_call.result[1]
        IN  /\ r <=> /\ StartsWith(up, kwSELECT)
                     /\ Contains(up, kwFROM)
                     /\ \A i \in 1..Len(dangerous_keywords) : ~Contains(up, dangerous_keywords[i])
            /\ \E i \in 1..Len(C18_Example(sql)) : C18_Example(sql)[i] = r

\* a SELECT naming the column updated_at was rejected
C18_Witness ==
    /\ last_call.op = "validate_sql"
    /\ last_call.args[1] = <<"S","E","L","E","C","T"," ","u","p","d","a","t","e","d","_","a","t"," ","F","R","O","M"," ","o","r","d","e","r","s">>
    /\ last_call.result[1] = FALSE

\* the interaction an add_interaction step of process_query has appended
C19_Appended == conversation_history'[Len(conversation_history')]

\* C19 as stated: every interaction process_query appends to the history has
\* response_type in {schema_request, table_list, data_query, general}.
C19_ResponseTypeIsClassification ==
    [][\A io \in IoOutcomes :
         AddInteraction(io) =>
             /\ Len(conversation_history') >= 1
             /\ C19_Appended.response_type
                    \in {"schema_request", "table_list", "data_query", "general"}
      ]_vars

\* C19 amended: every interaction process_query appends to the history has
\* the type of the response being returned as its response_type, one of
\* {schema_query, data_query, general_response}: schema_query for a query
\* classified schema_request or table_list, data_query for data_query,
\* general_response for general.
C19_ResponseTypeIsResponseType ==
    [][\A io \in IoOutcomes :
         AddInteraction(io) =>
             /\ Len(conversation_history') >= 1
             /\ C19_Appended.query = user_query
             /\ C19_Appended.response_type = response.type
             /\ C19_Appended.response_type
                    = CASE query_type \in {"schema_request", "table_list"} -> "schema_query"
                        [] query_type = "data_query" -> "data_query"
                        [] OTHER -> "general_response"
      ]_vars

\* a query classified table_list was recorded with response_type schema_query
C19_Witness ==
    /\ pc = "returned"
    /\ query_type = "table_list"
    /\ appended = 1
    /\ Len(conversation_history) >= 1
    /\ conversation_history[Len(conversation_history)].response_type = "schema_query"
    /\ conversation_history[Len(conversation_history)].query = user_query

\* the fields a response of its type carries (a key that is absent is None)
C20_WellFormed(r) ==
    /\ r.type \in {"data_query", "schema_query", "general_response"}
    /\ r.type = "data_query" => r.sql_query # None /\ r.explanation # None
    /\ r.type # "data_query" => r.content # None

\* C20: every response process_query returns has a type in {data_query,
\* schema_query, general_response}; a data_query response carries sql_query
\* and explanation, every other carries content; queries classified
\* schema_request and table_list both yield schema_query; and the front end's
\* dispatch never ends in its unknown-type error for a returned response (the
\* only error message after a return is a failed execution of a data query).
C20_ResponseShape ==
    /\ [](Returned =>
            /\ C20_WellFormed(response)
            /\ query_type \in {"schema_request", "table_list"} => response.type = "schema_query")
    /\ [][\A db \in {"ok", "fails"} :
            (FrontEndResponse(db) /\ last_message' = "error") =>
                response.type = "data_query" /\ db = "fails"]_vars

\* the front end has shown the answer to a table-list query as an assistant message
C20_Witness ==
    /\ pc = "turn_done"
    /\ classify_query(user_query) = "table_list"
    /\ response.type = "schema_query"
    /\ response.content = TablesContent
    /\ last_message = "assistant"

\* C21: cleanup_old_sessions, run at any point of a process_query call or
\* between two turns, never deletes or changes the session's file, whatever
\* the file's age and the days_old argument.
C21_SweepSparesActiveSession ==
    [][\A days_old \in DaysOld, age \in FileAges :
         CleanupOldSessions(days_old, age) => session_file' = session_file]_vars

\* C22: the interaction process_query appends records the user's original
\* text as its query, also when the resolver rewrote it; the rewritten text
\* is what is classified and what the branch handler works on.
C22_OriginalTextRecorded ==
    /\ [][\A io \in IoOutcomes :
            AddInteraction(io) =>
                /\ Len(conversation_history') >= 1
                /\ conversation_history'[Len(conversation_history')].query = user_query
                /\ user_query' = user_query]_vars
    /\ [](pc \in {"classified", "handled", "returned"} =>
              query_type = classify_query(resolved_query))
    /\ [](pc \in {"handled", "returned"} /\ response.type = "data_query" =>
              response.explanation = ExplanationPrefix \o resolved_query \o <<"'">>)

\* a call whose query the resolver rewrote has returned, and the history ends
\* with the user's text
C22_Witness ==
    /\ pc = "returned"
    /\ resolved_query # user_query
    /\ query_type # classify_query(user_query)
    /\ Len(conversation_history) >= 1
    /\ conversation_history[Len(conversation_history)].query = user_query

\* the marker that opens and closes a fenced code block
C23_Fence == <<BQ, BQ, BQ>>

\* the text after the opening marker and its language tag, if any
C23_AfterOpen(text) ==
    LET rest == Drop(text, Find(text, C23_Fence) + 3)
    IN  IF StartsWith(Lower(rest), <<"s","q","l">>) THEN Drop(rest, 3) ELSE rest

\* the text holds a fenced block: an opening marker and a closing one after it
C23_HasFencedBlock(text) ==
    Contains(text, C23_Fence) /\ Contains(C23_AfterOpen(text), C23_Fence)

\* the trimmed content of the first fenced block
C23_FencedContent(text) ==
    Strip(Take(C23_AfterOpen(text), Find(C23_AfterOpen(text), C23_Fence)))

\* C23: when the response holds a fenced code block, _extract_sql returns
\* exactly the trimmed content inside the fence: no marker, no language tag,
\* nothing from outside the fence.
C23_FencedContentReturned ==
    (last_call.op = "extract_sql" /\ C23_HasFencedBlock(last_call.args[1])) =>
        /\ last_call.result.ok
        /\ last_call.result.sql = C23_FencedContent(last_call.args[1])

\* the trimmed lines of the trimmed response
C24_Lines(text) ==
    LET lines == SplitLines(Strip(text))
    IN  [i \in 1..Len(lines) |-> Strip(lines[i])]

\* the lines that begin with SELECT, whatever the case
C24_SelectLines(text) ==
    {i \in 1..Len(C24_Lines(text)) : StartsWith(Upper(C24_Lines(text)[i]), kwSELECT)}

\* the run of lines from the first SELECT line through the first line from
\* there on that ends in ';' (through the last line when none does)
C24_LineRun(text) ==
    LET lines  == C24_Lines(text)
        first  == CHOOSE i \in C24_SelectLines(text) : \A j \in C24_SelectLines(text) : i <= j
        closed == {i \in first..Len(lines) : EndsWith(lines[i], <<";">>)}
        last   == IF closed = {} THEN Len(lines)
                  ELSE CHOOSE i \in closed : \A j \in closed : i <= j
    IN  Join(<<"\n">>, SubSeq(lines, first, last))

\* the text from the first SELECT up to the earliest ';', blank line or fence
\* marker after it (to the end when there is none), trimmed
C24_UpToEarliestMarker(text) ==
    LET stripped == Strip(text)
        from     == Strip(Drop(stripped, Find(Upper(stripped), kwSELECT)))
        ends     == {Find(from, end_markers[i]) : i \in 1..Len(end_markers)} \ {-1}
    IN  IF ends = {} THEN from
        ELSE Strip(Take(from, CHOOSE p \in ends : \A q \in ends : p <= q))

\* C24: for a response without a fenced block, _extract_sql returns the lines
\* from the first line beginning with SELECT through the first line ending in
\* ';'; when no line begins with SELECT but SELECT occurs in the text, it
\* returns the text from the first SELECT up to the earliest of ';', a blank
\* line and a fence marker.
C24_LineRunElseEarliestMarker ==
    (last_call.op = "extract_sql" /\ ~C23_HasFencedBlock(last_call.args[1])) =>
        LET text == last_call.args[1]
            r    == last_call.result
        IN  /\ C24_SelectLines(text) # {} => r.ok /\ r.sql = C24_LineRun(text)
            /\ (C24_SelectLines(text) = {} /\ Contains(Upper(text), kwSELECT)) =>
                   r.ok /\ r.sql = C24_UpToEarliestMarker(text)

\* C25: for every response, _extract_sql either returns non-empty text or
\* fails with the ValueError "No SQL query found"; it never returns empty
\* text and never fails with another error.
C25_TextOrNoSqlFound ==
    last_call.op = "extract_sql" =>
        \/ last_call.result.ok /\ last_call.result.sql # <<>>
        \/ ~last_call.result.ok /\ last_call.result.err = "ValueError"

\* the positions of a process_query call that has not ended
C26_InCall ==
    {"received", "followup_detected", "context_selected", "references_resolved",
     "classified", "handled"}

\* the successions of positions C26 allows within a call: the fixed order,
\* left only by an exception
C26_Order ==
    { <<"received", "followup_detected">>, <<"followup_detected", "context_selected">>,
      <<"context_selected", "references_resolved">>, <<"context_selected", "raised">>,
      <<"references_resolved", "classified">>,
      <<"classified", "handled">>, <<"classified", "raised">>,
      <<"handled", "returned">> }

\* C26: within one process_query call the steps happen in the order follow-up
\* detection, context selection, reference resolution, classification, one
\* branch handler, session append, return, each at most once; no
\* language-model call site is called twice; the append is the last step, so
\* the context of the turn is that of the history as it was when the call
\* began, whose interactions all come from earlier turns.
C26_LinearCall ==
    /\ [][(pc \in C26_InCall /\ pc' # pc) => <<pc, pc'>> \in C26_Order]_vars
    /\ [](pc \in C26_InCall \cup {"returned", "raised"} =>
            /\ \A site \in {"resolve", "generate", "usage", "general"} : llm_calls[site] <= 1
            /\ llm_calls.generate = 1 => query_type = "data_query" /\ llm_calls.general = 0
            /\ llm_calls.general = 1 => query_type = "general" /\ llm_calls.usage = 0
            /\ appended = (IF pc = "returned" THEN 1 ELSE 0)
            /\ pc # "returned" => conversation_history = before.history
            /\ pc = "returned" =>
                   conversation_history = add_interaction(before.history, NewItem, max_history)
            /\ pc \notin {"received", "followup_detected", "raised"} =>
                   relevant_context = get_relevant_context(before.history)
            /\ \A i \in 1..Len(before.history) : before.history[i].timestamp # Now(clock))

\* a call on a non-empty history has returned after one resolver call: its
\* context is that of the earlier history, not of the history it now ends
C26_Witness ==
    /\ pc = "returned"
    /\ Len(before.history) >= 1
    /\ llm_calls.resolve = 1
    /\ appended = 1
    /\ relevant_context = get_relevant_context(before.history)
    /\ relevant_context # get_relevant_context(conversation_history)

\* h2 is a suffix of h1 followed by at most one further item
C27_SuffixPlusOne(h1, h2) ==
    \E k \in 0..Len(h1), n \in {0, 1} :
        /\ Len(h2) = Len(h1) - k + n
        /\ \A i \in 1..(Len(h1) - k) : h2[i] = h1[k + i]

\* C27: interactions are immutable and never deleted one by one: every step
\* of the store leaves the history empty (clear_session) or equal to a suffix
\* of the previous history followed by at most one new item, so that an
\* interaction that stays keeps all its fields; only clear_session empties a
\* non-empty history; update_session_data and the reads
\* (get_conversation_history, get_last_interaction_summary,
\* get_relevant_context, find_relevant_context) change nothing of it.
C27_HistoryOnlyAppendedOrCleared ==
    [][/\ \/ conversation_history' = <<>>
          \/ C27_SuffixPlusOne(conversation_history, conversation_history')
       /\ (conversation_history # <<>> /\ conversation_history' = <<>>) =>
              \E io \in IoOutcomes : ClearSession(io)
       /\ \A q \in StoreQueries, io \in IoOutcomes :
              AddInteractionCall(q, io) =>
                  /\ Len(conversation_history') >= 1
                  /\ conversation_history'[Len(conversation_history')].query = q
                  /\ Len(conversation_history') >= Min(Len(conversation_history) + 1, max_history)
       /\ (\E key \in AuxKeys, value \in AuxValues, io \in IoOutcomes :
              UpdateSessionData(key, value, io)) =>
              conversation_history' = conversation_history
       /\ last_call' # last_call =>
              /\ conversation_history' = conversation_history
              /\ session_data' = session_data
              /\ session_file' = session_file
              /\ max_history' = max_history
      ]_vars

\* a read was made after an append that pushed the oldest of two interactions
\* out: the one that stayed is as it was
C27_Witness ==
    /\ last_call.op = "get_last_interaction_summary"
    /\ max_history = 2
    /\ Len(before.history) = 2
    /\ Len(conversation_history) = 2
    /\ conversation_history[1] = before.history[2]
    /\ conversation_history[2].timestamp = Now(clock)

\* the SQL C28 expects in the context: the stored text, or its first 200
\* characters and an ellipsis
C28_SqlShown(sql) ==
    IF Len(sql) <= 200 THEN sql ELSE SubSeq(sql, 1, 200) \o <<".", ".", ".">>

\* the label of the SQL line of the context
C28_SqlLabel == <<"S","Q","L"," ","e","x","e","c","u","t","e","d",":"," ">>

\* the lines of text that begin with the SQL label
C28_SqlLines(text) ==
    LET lines == SplitLines(text)
    IN  {i \in 1..Len(lines) : StartsWith(lines[i], C28_SqlLabel)}

\* C28: get_relevant_context returns empty text iff the history is empty;
\* otherwise the text depends on the most recent interaction only (not on the
\* query, the follow-up signal or the older interactions), and the SQL in it
\* is the stored SQL when that has at most 200 characters, else its first 200
\* characters followed by '...'.
C28_LastInteractionOnly ==
    last_call.op = "get_relevant_context" =>
        LET h    == conversation_history
            text == last_call.result
        IN  /\ text = <<>> <=> h = <<>>
            /\ h # <<>> =>
                   LET last == h[Len(h)]
                   IN  /\ \A f \in ContextHistories :
                              (f # <<>> /\ ContextHistory(<<f[Len(f)]>>)[1]
                                              = [last EXCEPT !.timestamp = Now(1)]) =>
                                 get_relevant_context(
                                     [ContextHistory(f) EXCEPT ![Len(f)].timestamp = last.timestamp])
                                 = text
                       /\ last.sql_query = None => C28_SqlLines(text) = {}
                       /\ last.sql_query # None =>
                              \E i \in 1..Len(SplitLines(text)) :
                                  /\ C28_SqlLines(text) = {i}
                                  /\ SplitLines(text)[i]
                                        = C28_SqlLabel \o C28_SqlShown(last.sql_query)

\* the context of a history of two was asked for with a follow-up query, and
\* shows the 200 first characters of the last interaction's longer SQL
C28_Witness ==
    /\ last_call.op = "get_relevant_context"
    /\ last_call.args[2].is_follow_up
    /\ Len(conversation_history) = 2
    /\ Len(conversation_history[2].sql_query) = 201
    /\ conversation_history[1].sql_query = None
    /\ \E i \in 1..Len(SplitLines(last_call.result)) :
           SplitLines(last_call.result)[i]
             = C28_SqlLabel \o SqlOfLength(200) \o <<".", ".", ".">>

\* the most recent interaction of a non-empty history
C29_Last(h) == h[Len(h)]

\* the line of the context that shows the result summary of a data query
C29_ResultLine == <<"R","e","s","u","l","t",":"," ","Q","u","e","r","y"," ","e","x","e","c","u","t","e","d"," ","s","u","c","c","e","s","s","f","u","l","l","y">>

C30_Recovered(file) == load_session(file).history

\* C30: a failed write leaves the previously saved file intact: when
\* _save_session fails during add_interaction, clear_session or
\* update_session_data on a session whose file was saved before, a later load
\* still recovers the history of the last successful save.
C30_FailedWriteKeepsFile ==
    [][session_file.kind = "json" =>
         /\ \A io \in IoOutcomes :
                (AddInteraction(io) /\ C11_WriteFailed(session_data, io)) =>
                    C30_Recovered(session_file') = C30_Recovered(session_file)
         /\ \A io \in IoOutcomes :
                (ClearSession(io) /\ C11_WriteFailed({}, io)) =>
                    C30_Recovered(session_file') = C30_Recovered(session_file)
         /\ \A key \in AuxKeys, value \in AuxValues, io \in IoOutcomes :
                (UpdateSessionData(key, value, io) /\ C11_WriteFailed(session_data', io)) =>
                    C30_Recovered(session_file') = C30_Recovered(session_file)
      ]_vars

====
